---- MODULE Spec2Model ----
(***************************************************************************)
(* PostgreSqlEventStore: appendEvents / saveSnapshot, each wrapped by      *)
(* CircuitBreaker.execute -> retryWithBackoff -> one database transaction. *)
(* The database is PostgreSQL at its default isolation (READ COMMITTED):   *)
(* every statement of a transaction reads the rows committed at the moment *)
(* the statement runs; rows written by a transaction become visible to     *)
(* others at its commit; the unique index on (aggregateId, eventVersion)   *)
(* makes an insert wait for an in-flight transaction holding the same key  *)
(* and fail with 23505 when the key is committed.                          *)
(*                                                                         *)
(* Spec           the store under two concurrent writers and injected     *)
(*                faults                                                   *)
(* SpecRetry      retryWithBackoff on its own, options and outcomes drawn  *)
(* SpecBreaker    CircuitBreaker.execute under two callers and a clock,    *)
(*                the attempts of the retry loop inside each operation     *)
(* SpecReset      SpecBreaker with CircuitBreaker.reset at any time        *)
(* SpecRecovery   the breaker where awaited operations settle (liveness)   *)
(* SpecQuery      the read-only queries on the stores the writers build    *)
(* SpecRefinement InMemoryEventStore given the calls PostgreSqlEventStore  *)
(*                answered with success, and one query put to both         *)
(***************************************************************************)
EXTENDS Integers, Sequences, FiniteSets, TLC

----------------------------------------------------------------------------
(* Bounds of the model *)
MaxEvents == 2         \* events in one appendEvents batch
MaxExpected == 1       \* largest expectedVersion a caller passes
MaxFaults == 1         \* infrastructure failures injected in one behaviour
MaxNow == 3            \* clock ticks in one behaviour (where the clock runs)
TickMs == 30000        \* milliseconds of one clock tick

(* Program constants *)
MAX_ATTEMPTS == 3
BASE_DELAY == 100
MAX_DELAY == 3000
CIRCUIT_FAILURE_THRESHOLD == 5
CIRCUIT_SUCCESS_THRESHOLD == 2
CIRCUIT_TIMEOUT == 60000

Procs == {"w1", "w2"}    \* the concurrent callers of the store, one call each
AggregateIds == {"A", "B"}
SnapshotData == {"s1", "s2"}
SnapshotVersions == {1, 2}
Undefined == -1        \* an omitted expectedVersion

VARIABLES
  eventStore,      \* committed rows of table event_store
  snapshots,       \* rows of table event_store_snapshots
  circuitBreaker,  \* the CircuitBreaker instance of the store
  now,             \* Date.now()
  call,            \* per caller: the position and locals of its current call
  faults,          \* number of infrastructure failures injected
  retryRun,        \* the locals of one retryWithBackoff call taken on its own
  execution,       \* per caller: its call seen from CircuitBreaker.execute
  breakerLog,      \* what the breaker has recorded, kept beside its own counters
  query,           \* the read-only query of a reader and what it returned
  inMemory         \* the InMemoryEventStore given the same calls, and its answer

(* what the store's operations leave alone *)
aux == <<retryRun, execution, breakerLog, query, inMemory>>

vars == <<eventStore, snapshots, circuitBreaker, now, call, faults, aux>>

----------------------------------------------------------------------------
(* Errors thrown by the driver: a code (sequence of characters, <<>> when   *)
(* the error has no code) and the keywords its lower-cased message includes *)
NoError == [code |-> <<"-">>, message |-> {}]
ConnectionFailure == [code |-> <<"0", "8", "0", "0", "6">>, message |-> {"connection"}]
QueryTimeout == [code |-> <<>>, message |-> {"timeout"}]
UniqueViolation == [code |-> <<"2", "3", "5", "0", "5">>, message |-> {}]
InvalidText == [code |-> <<"2", "2", "P", "0", "2">>, message |-> {}]
InvalidTextNetwork == [code |-> <<"2", "2", "P", "0", "2">>, message |-> {"network"}]
UnknownError == [code |-> <<>>, message |-> {}]

InfraErrors == {ConnectionFailure, InvalidText, InvalidTextNetwork}

(* what a statement of an attempt can throw: the statements that carry the  *)
(* caller's aggregateId or payload (the version query on the uuid column,   *)
(* the snapshot upsert) can be refused for their data, every statement can  *)
(* lose the connection                                                       *)
ErrorsAt(pc) ==
  IF pc \in {"version", "snapshot"} THEN InfraErrors ELSE {ConnectionFailure}

startsWith(code, prefix) ==
  /\ Len(code) >= Len(prefix)
  /\ \A i \in 1..Len(prefix) : code[i] = prefix[i]

TransientWords == {"timeout", "connection", "network", "econnrefused", "enotfound", "etimedout"}

isTransientError(err) ==
  IF startsWith(err.code, <<"0", "8">>) THEN TRUE
  ELSE IF startsWith(err.code, <<"5", "3">>) THEN TRUE
  ELSE IF startsWith(err.code, <<"5", "7">>) THEN TRUE
  ELSE IF err.code = <<"4", "0", "0", "0", "1">> THEN TRUE
  ELSE IF err.code = <<"4", "0", "P", "0", "1">> THEN TRUE
  ELSE IF err.code = <<"5", "5", "P", "0", "3">> THEN TRUE
  ELSE IF err.message \cap TransientWords # {} THEN TRUE
  ELSE IF err.code = <<"2", "3", "5", "0", "5">> THEN FALSE
  ELSE IF err.code = <<"2", "3", "5", "0", "3">> THEN FALSE
  ELSE IF err.code = <<"2", "3", "5", "1", "4">> THEN FALSE
  ELSE IF startsWith(err.code, <<"2", "2">>) THEN FALSE
  ELSE IF startsWith(err.code, <<"4", "2">>) THEN FALSE
  ELSE FALSE

----------------------------------------------------------------------------
(* Queries *)
MaxOf(S) == IF S = {} THEN 0 ELSE CHOOSE x \in S : \A y \in S : y <= x

RowsOf(aggregateId) == {r \in eventStore : r.aggregateId = aggregateId}

(* mutant: the current_version column is not found and the '0' default is parsed *)
getCurrentVersionDefaulted(aggregateId) == 0

getCurrentVersionInTransaction(aggregateId) ==
  MaxOf({r.eventVersion : r \in {s \in eventStore : s.aggregateId = aggregateId}})

(* mutant: the next global version is the maximum, not the one after it *)
nextGlobalVersionUnincremented == MaxOf({r.globalVersion : r \in eventStore})

nextGlobalVersionQuery == MaxOf({r.globalVersion : r \in eventStore}) + 1

(* event.constructor.name of the events a caller passes: the first event    *)
(* of a batch is of one class, the events after it of another               *)
EventTypes == {"OrderCreated", "OrderUpdated"}
eventTypeOf(index) == IF index = 0 THEN "OrderCreated" ELSE "OrderUpdated"

(* mutant: eventVersion numbered from currentVersion + 2 *)
EventStoreEntitySkipping(id, invocation, aggregateId, currentVersion, nextGlobalVersion, index) ==
  [eventId |-> <<id, invocation, index>>,
   aggregateId |-> aggregateId,
   eventType |-> eventTypeOf(index),
   eventVersion |-> currentVersion + index + 2,
   globalVersion |-> nextGlobalVersion + index]

(* events.map(...) of appendEventsInternal: entity number index+1 of a batch *)
EventStoreEntity(id, invocation, aggregateId, currentVersion, nextGlobalVersion, index) ==
  [eventId |-> <<id, invocation, index>>,
   aggregateId |-> aggregateId,
   eventType |-> eventTypeOf(index),
   eventVersion |-> currentVersion + index + 1,
   globalVersion |-> nextGlobalVersion + index]

eventEntities(id, invocation, aggregateId, n, currentVersion, nextGlobalVersion) ==
  [i \in 1..n |->
    EventStoreEntity(id, invocation, aggregateId, currentVersion, nextGlobalVersion, i - 1)]

(* rows written and not yet committed by the transaction of caller p *)
Pending(p) == {call[p].entities[i] : i \in 1..call[p].saved}

(* the unique index on (aggregateId, eventVersion) *)
SameKey(r, s) == r.aggregateId = s.aggregateId /\ r.eventVersion = s.eventVersion
(* mutant: the index is not unique *)
UniqueIndexNotEnforced(row) == FALSE

UniqueIndexViolated(row) == \E s \in eventStore : SameKey(row, s)
UniqueIndexWaits(p, row) == \E q \in Procs \ {p} : \E s \in Pending(q) : SameKey(row, s)

----------------------------------------------------------------------------
(* CircuitBreaker *)
onSuccess(cb) ==
  IF cb.state = "HALF_OPEN"
  THEN IF cb.successCount + 1 >= CIRCUIT_SUCCESS_THRESHOLD
       THEN [cb EXCEPT !.failureCount = 0, !.state = "CLOSED", !.successCount = 0]
       ELSE [cb EXCEPT !.failureCount = 0, !.successCount = cb.successCount + 1]
  ELSE [cb EXCEPT !.failureCount = 0]

(* mutant: the breaker opens one failure late *)
onFailureOpeningLate(cb) ==
  IF cb.failureCount + 1 > CIRCUIT_FAILURE_THRESHOLD
  THEN [cb EXCEPT !.successCount = 0, !.failureCount = cb.failureCount + 1,
                  !.state = "OPEN", !.nextAttempt = now + CIRCUIT_TIMEOUT]
  ELSE [cb EXCEPT !.successCount = 0, !.failureCount = cb.failureCount + 1]

(* mutant: a failure keeps the successes counted so far *)
onFailureKeepingSuccesses(cb) ==
  IF cb.failureCount + 1 >= CIRCUIT_FAILURE_THRESHOLD
  THEN [cb EXCEPT !.failureCount = cb.failureCount + 1,
                  !.state = "OPEN", !.nextAttempt = now + CIRCUIT_TIMEOUT]
  ELSE [cb EXCEPT !.failureCount = cb.failureCount + 1]

(* mutant: any failure of a HALF_OPEN breaker opens it again *)
onFailureReopening(cb) ==
  IF cb.state = "HALF_OPEN" \/ cb.failureCount + 1 >= CIRCUIT_FAILURE_THRESHOLD
  THEN [cb EXCEPT !.successCount = 0, !.failureCount = cb.failureCount + 1,
                  !.state = "OPEN", !.nextAttempt = now + CIRCUIT_TIMEOUT]
  ELSE [cb EXCEPT !.successCount = 0, !.failureCount = cb.failureCount + 1]

onFailure(cb) ==
  IF cb.failureCount + 1 >= CIRCUIT_FAILURE_THRESHOLD
  THEN [cb EXCEPT !.successCount = 0, !.failureCount = cb.failureCount + 1,
                  !.state = "OPEN", !.nextAttempt = now + CIRCUIT_TIMEOUT]
  ELSE [cb EXCEPT !.successCount = 0, !.failureCount = cb.failureCount + 1]

(* the head of execute: TRUE when the call fails fast *)
CircuitRejects == circuitBreaker.state = "OPEN" /\ now < circuitBreaker.nextAttempt

(* mutant: the call after the cooldown is admitted with the breaker left OPEN *)
executeEnterStayingOpen(cb) == cb

executeEnter(cb) == IF cb.state = "OPEN" THEN [cb EXCEPT !.state = "HALF_OPEN"] ELSE cb

----------------------------------------------------------------------------
(* Results of the facade *)
NoResult == [errorKey |-> "none", expected |-> Undefined, current |-> Undefined]
Ok == [errorKey |-> "ok", expected |-> Undefined, current |-> Undefined]
Fail(key) == [errorKey |-> key, expected |-> Undefined, current |-> Undefined]
ConcurrencyError(expected, current) ==
  [errorKey |-> "EVENT_STORE_CONCURRENCY_ERROR", expected |-> expected, current |-> current]

FacadeError(op) ==
  IF op = "appendEvents" THEN Fail("EVENT_STORE_APPEND_ERROR") ELSE Fail("EVENT_STORE_SNAPSHOT_ERROR")

IdleCall ==
  [pc |-> "idle", op |-> "none", aggregateId |-> "A", n |-> 0,
   expectedVersion |-> Undefined, version |-> 0, snapshot |-> "s1",
   attempt |-> 0, invocations |-> 0, sleeps |-> 0,
   currentVersion |-> 0, nextGlobalVersion |-> 0, entities |-> <<>>, saved |-> 0,
   outcome |-> "none", lastError |-> NoError, result |-> NoResult,
   versionAtCall |-> 0, rejected |-> FALSE, injected |-> 0, mismatchAt |-> 0,
   passed |-> FALSE, discarded |-> 0, versionAtFailure |-> 0]

NoSnapshot == [version |-> -1, snapshotData |-> "none"]

(* retryWithBackoff before it is called *)
IdleRetry ==
  [pc |-> "idle", maxRetries |-> 0, baseDelay |-> 0, shouldRetry |-> "default",
   attempt |-> 0, invocations |-> 0, sleeps |-> 0, delay |-> 0,
   lastError |-> NoError, failures |-> <<>>, thrown |-> NoError]

(* a caller outside execute *)
IdleExecution ==
  [pc |-> "idle", op |-> "none", outcome |-> "none", result |-> NoResult,
   trial |-> FALSE, duringTrial |-> FALSE, attempt |-> 0]

NoLog ==
  [streak |-> 0, streakExhausted |-> TRUE, halfOpenSuccesses |-> 0, openedAt |-> -1,
   trial |-> "none", halfOpenFailure |-> "none"]

(* a reader that has not called yet *)
NoQuery == [pc |-> "idle", op |-> "none", aggregateId |-> "A", eventType |-> "none",
            fromVersion |-> Undefined, toVersion |-> Undefined, result |-> <<>>]

(* InMemoryEventStore after construction; applied: the callers whose call   *)
(* it has been given; pc, result: its answer to the reader's query          *)
EmptyInMemory ==
  [events |-> <<>>, globalVersion |-> 0, applied |-> {}, pc |-> "idle", result |-> <<>>]

Init ==
  /\ eventStore = {}
  /\ snapshots = {}
  /\ circuitBreaker = [state |-> "CLOSED", failureCount |-> 0, successCount |-> 0, nextAttempt |-> 0]
  /\ now = 0
  /\ call = [p \in Procs |-> IdleCall]
  /\ faults = 0
  /\ retryRun = IdleRetry
  /\ execution = [p \in Procs |-> IdleExecution]
  /\ breakerLog = NoLog
  /\ query = NoQuery
  /\ inMemory = EmptyInMemory

----------------------------------------------------------------------------
(* The facade: circuitBreaker.execute(() => retryWithBackoff(...)) up to    *)
(* the first await of the first attempt                                     *)
Enter(p, op, aggregateId, n, expectedVersion, snapshot, version) ==
  /\ call[p].pc = "idle"
  /\ LET c == [IdleCall EXCEPT !.op = op, !.aggregateId = aggregateId,
                               !.n = n, !.expectedVersion = expectedVersion,
                               !.snapshot = snapshot, !.version = version,
                               !.versionAtCall = Cardinality(RowsOf(aggregateId))]
     IN IF CircuitRejects
        THEN /\ call' = [call EXCEPT ![p] = [c EXCEPT !.pc = "done", !.rejected = TRUE,
                                                     !.result = FacadeError(op)]]
             /\ UNCHANGED circuitBreaker
        ELSE /\ call' = [call EXCEPT ![p] = [c EXCEPT !.invocations = 1,
                             !.pc = IF op = "appendEvents" THEN "version" ELSE "snapshot"]]
             /\ circuitBreaker' = executeEnter(circuitBreaker)
  /\ UNCHANGED <<eventStore, snapshots, now, faults>>
  /\ UNCHANGED aux

appendEvents(p, aggregateId, n, expectedVersion) ==
  Enter(p, "appendEvents", aggregateId, n, expectedVersion, "s1", 0)

saveSnapshot(p, aggregateId, snapshot, version) ==
  Enter(p, "saveSnapshot", aggregateId, 0, Undefined, snapshot, version)

(* appendEventsInternal, one step per statement that reads or writes the   *)
(* tables: connect, startTransaction and the version query                  *)
checkVersion(p) ==
  /\ call[p].pc = "version"
  /\ LET currentVersion == getCurrentVersionInTransaction(call[p].aggregateId)
         expectedVersion == call[p].expectedVersion
     IN IF expectedVersion # Undefined /\ currentVersion # expectedVersion
        THEN call' = [call EXCEPT ![p].currentVersion = currentVersion,
                                  ![p].outcome = "concurrency",
                                  ![p].versionAtFailure = 0,
                                  ![p].pc = "release"]
        ELSE call' = [call EXCEPT ![p].currentVersion = currentVersion,
                                  ![p].passed = TRUE,
                                  ![p].versionAtFailure = 0,
                                  ![p].pc = "global"]
  /\ UNCHANGED <<eventStore, snapshots, circuitBreaker, now, faults>>
  /\ UNCHANGED aux

assignVersions(p) ==
  /\ call[p].pc = "global"
  /\ LET nextGlobalVersion == nextGlobalVersionQuery
     IN call' = [call EXCEPT ![p].nextGlobalVersion = nextGlobalVersion,
                             ![p].entities = eventEntities(p, call[p].invocations,
                                               call[p].aggregateId, call[p].n,
                                               call[p].currentVersion, nextGlobalVersion),
                             ![p].saved = 0,
                             ![p].pc = "save"]
  /\ UNCHANGED <<eventStore, snapshots, circuitBreaker, now, faults>>
  /\ UNCHANGED aux

(* the transaction ends without its rows: they are discarded *)
rollbackTransaction(c, err) ==
  [c EXCEPT !.saved = 0, !.discarded = c.saved, !.outcome = "throw", !.lastError = err,
            !.pc = "release"]

(* mutant: the rows are saved through the repository, outside the transaction *)
saveOutsideTransaction(p) ==
  /\ call[p].pc = "save"
  /\ LET row == call[p].entities[call[p].saved + 1]
     IN /\ ~UniqueIndexWaits(p, row)
        /\ IF UniqueIndexViolated(row)
           THEN /\ call' = [call EXCEPT ![p] = rollbackTransaction(call[p], UniqueViolation)]
                /\ UNCHANGED eventStore
           ELSE /\ call' = [call EXCEPT ![p].saved = call[p].saved + 1,
                            ![p].pc = IF call[p].saved + 1 = call[p].n THEN "commit" ELSE "save"]
                /\ eventStore' = eventStore \cup {row}
  /\ UNCHANGED <<snapshots, circuitBreaker, now, faults>>
  /\ UNCHANGED aux

save(p) ==
  /\ call[p].pc = "save"
  /\ LET row == call[p].entities[call[p].saved + 1]
     IN /\ ~UniqueIndexWaits(p, row)
        /\ IF UniqueIndexViolated(row)
           THEN call' = [call EXCEPT ![p] = rollbackTransaction(call[p], UniqueViolation)]
           ELSE call' = [call EXCEPT ![p].saved = call[p].saved + 1,
                            ![p].pc = IF call[p].saved + 1 = call[p].n THEN "commit" ELSE "save"]
  /\ UNCHANGED <<eventStore, snapshots, circuitBreaker, now, faults>>
  /\ UNCHANGED aux

(* mutant: the commit replaces the stream of the aggregate *)
commitReplacingStream(store, rows) ==
  {r \in store : \A s \in rows : r.aggregateId # s.aggregateId} \cup rows

(* the rows of a committed transaction join the table *)
commit(store, rows) == store \cup rows

commitTransaction(p) ==
  /\ call[p].pc = "commit"
  /\ eventStore' = commit(eventStore, Pending(p))
  /\ call' = [call EXCEPT ![p].saved = 0, ![p].outcome = "ok", ![p].pc = "release"]
  /\ UNCHANGED <<snapshots, circuitBreaker, now, faults>>
  /\ UNCHANGED aux

(* saveSnapshotInternal: snapshotRepository.save looks the entity up by its *)
(* primary key, then inserts it or updates the row it found                *)
SnapshotsOf(aggregateId) == {r \in snapshots : r.aggregateId = aggregateId}

SnapshotEntity(c) ==
  [aggregateId |-> c.aggregateId, version |-> c.version, snapshotData |-> c.snapshot]

(* mutant: the table has no primary key *)
PrimaryKeyNotEnforced(aggregateId) == FALSE

(* the primary key aggregateId refuses a second row of the aggregate *)
PrimaryKeyViolated(aggregateId) == SnapshotsOf(aggregateId) # {}

saveSnapshotInternal(p) ==
  /\ call[p].pc = "snapshot"
  /\ call' = [call EXCEPT ![p].pc = IF SnapshotsOf(call[p].aggregateId) = {}
                                    THEN "insertSnapshot" ELSE "updateSnapshot"]
  /\ UNCHANGED <<eventStore, snapshots, circuitBreaker, now, faults>>
  /\ UNCHANGED aux

persistSnapshot(p) ==
  /\ call[p].pc \in {"insertSnapshot", "updateSnapshot"}
  /\ IF call[p].pc = "insertSnapshot"
     THEN IF PrimaryKeyViolated(call[p].aggregateId)
          THEN /\ call' = [call EXCEPT ![p] = rollbackTransaction(call[p], UniqueViolation)]
               /\ UNCHANGED snapshots
          ELSE /\ snapshots' = snapshots \cup {SnapshotEntity(call[p])}
               /\ call' = [call EXCEPT ![p].outcome = "ok", ![p].pc = "release"]
     ELSE /\ snapshots' = (snapshots \ SnapshotsOf(call[p].aggregateId))
                            \cup {SnapshotEntity(call[p])}
          /\ call' = [call EXCEPT ![p].outcome = "ok", ![p].pc = "release"]
  /\ UNCHANGED <<eventStore, circuitBreaker, now, faults>>
  /\ UNCHANGED aux

(* getSnapshot: findOne({ where: { aggregateId }, order: { version: 'DESC' } }) *)
getSnapshot(aggregateId) ==
  IF SnapshotsOf(aggregateId) = {} THEN NoSnapshot
  ELSE LET row == CHOOSE r \in SnapshotsOf(aggregateId) :
                    \A o \in SnapshotsOf(aggregateId) : o.version <= r.version
       IN [version |-> row.version, snapshotData |-> row.snapshotData]

(* a statement of the attempt throws: the catch block rolls back and         *)
(* rethrows. At "release" it is the rollback of the mismatch branch or of    *)
(* the catch block, or queryRunner.release, that throws: its error replaces  *)
(* the value or the error the attempt was about to leave with               *)
StatementFails(p, err) ==
  /\ call[p].pc \in {"version", "global", "save", "commit", "snapshot",
                      "insertSnapshot", "updateSnapshot", "release"}
  /\ call[p].pc = "release" => call[p].op = "appendEvents"
  /\ err \in ErrorsAt(call[p].pc)
  /\ faults < MaxFaults
  /\ faults' = faults + 1
  /\ call' = [call EXCEPT ![p] = [rollbackTransaction(call[p], err)
                                    EXCEPT !.injected = call[p].injected + 1,
                                           !.versionAtFailure =
                                              IF isTransientError(err)
                                                 /\ call[p].op = "appendEvents"
                                              THEN Cardinality(RowsOf(call[p].aggregateId))
                                              ELSE 0]]
  /\ UNCHANGED <<eventStore, snapshots, circuitBreaker, now>>
  /\ UNCHANGED aux

(* the server commits and the connection breaks before commitTransaction resolves *)
CommitAcknowledgementLost(p) ==
  /\ call[p].pc = "commit"
  /\ faults < MaxFaults
  /\ faults' = faults + 1
  /\ eventStore' = commit(eventStore, Pending(p))
  /\ call' = [call EXCEPT ![p] = [rollbackTransaction(call[p], ConnectionFailure)
                                    EXCEPT !.injected = call[p].injected + 1,
                                           !.versionAtFailure =
                                              Cardinality({r \in eventStore' :
                                                 r.aggregateId = call[p].aggregateId})]]
  /\ UNCHANGED <<snapshots, circuitBreaker, now>>
  /\ UNCHANGED aux

(* the attempt has ended: queryRunner.release, then retryWithBackoff's      *)
(* return or catch block, then execute's onSuccess / onFailure and the      *)
(* facade's Result                                                          *)
release(c) ==
  [c EXCEPT !.currentVersion = 0, !.nextGlobalVersion = 0, !.entities = <<>>, !.saved = 0,
            !.discarded = 0]

retryDecision(c) ==
  IF ~isTransientError(c.lastError) THEN "throw"
  ELSE IF c.attempt + 1 > MAX_ATTEMPTS THEN "throw"
  ELSE "sleep"

(* mutant: the version mismatch is thrown and retried like any error *)
afterAttemptRetryingMismatch(c) ==
  IF c.outcome = "ok" THEN "return"
  ELSE IF c.outcome = "concurrency"
       THEN IF c.attempt + 1 > MAX_ATTEMPTS THEN "throw" ELSE "sleep"
       ELSE retryDecision(c)

(* a returned Result (success or version mismatch) is a value, not an error *)
afterAttempt(c) ==
  IF c.outcome \in {"ok", "concurrency"} THEN "return" ELSE retryDecision(c)

settle(p) ==
  /\ call[p].pc = "release"
  /\ LET c == call[p]
         r == release(c)
         returned == IF c.outcome = "concurrency" THEN c.invocations ELSE c.mismatchAt
     IN CASE afterAttempt(c) = "return" ->
               /\ circuitBreaker' = onSuccess(circuitBreaker)
               /\ call' = [call EXCEPT ![p] = [r EXCEPT !.pc = "done",
                              !.mismatchAt = returned,
                              !.result =
                                IF c.outcome = "ok" THEN Ok
                                ELSE ConcurrencyError(c.expectedVersion, c.currentVersion)]]
          [] afterAttempt(c) = "throw" ->
               /\ circuitBreaker' = onFailure(circuitBreaker)
               /\ call' = [call EXCEPT ![p] = [r EXCEPT !.attempt = c.attempt + 1,
                                    !.mismatchAt = returned,
                                    !.result = FacadeError(c.op), !.pc = "done"]]
          [] afterAttempt(c) = "sleep" ->
               /\ circuitBreaker' = circuitBreaker
               /\ call' = [call EXCEPT ![p] = [r EXCEPT !.attempt = c.attempt + 1,
                                    !.mismatchAt = returned,
                                    !.sleeps = c.sleeps + 1, !.pc = "sleep"]]
  /\ UNCHANGED <<eventStore, snapshots, now, faults>>
  /\ UNCHANGED aux

(* mutant: the retry resumes behind the version check, on the version of   *)
(* the aggregate at the time of the call                                    *)
retryResumingAfterCheck(p) ==
  /\ call[p].pc = "sleep"
  /\ call' = [call EXCEPT ![p].invocations = call[p].invocations + 1,
                          ![p].outcome = "none",
                          ![p].currentVersion = call[p].versionAtCall,
                          ![p].versionAtFailure = 0,
                          ![p].pc = IF call[p].op = "appendEvents" THEN "global" ELSE "snapshot"]
  /\ UNCHANGED <<eventStore, snapshots, circuitBreaker, now, faults>>
  /\ UNCHANGED aux

(* the backoff sleep is over: the while loop invokes the operation again *)
retry(p) ==
  /\ call[p].pc = "sleep"
  /\ call' = [call EXCEPT ![p].invocations = call[p].invocations + 1,
                          ![p].outcome = "none",
                          ![p].pc = IF call[p].op = "appendEvents" THEN "version" ELSE "snapshot"]
  /\ UNCHANGED <<eventStore, snapshots, circuitBreaker, now, faults>>
  /\ UNCHANGED aux

(* Date.now() advances *)
Tick ==
  /\ now < MaxNow * TickMs
  /\ now' = now + TickMs
  /\ UNCHANGED <<eventStore, snapshots, circuitBreaker, call, faults>>
  /\ UNCHANGED aux

ExpectedVersions == {Undefined} \cup 0..MaxExpected

Next ==
  \/ \E p \in Procs, a \in AggregateIds, n \in 1..MaxEvents, e \in ExpectedVersions :
       appendEvents(p, a, n, e)
  \/ \E p \in Procs, a \in AggregateIds, s \in SnapshotData, v \in SnapshotVersions :
       saveSnapshot(p, a, s, v)
  \/ \E p \in Procs : checkVersion(p)
  \/ \E p \in Procs : assignVersions(p)
  \/ \E p \in Procs : save(p)
  \/ \E p \in Procs : commitTransaction(p)
  \/ \E p \in Procs : saveSnapshotInternal(p)
  \/ \E p \in Procs : persistSnapshot(p)
  \/ \E p \in Procs, err \in InfraErrors : StatementFails(p, err)
  \/ \E p \in Procs : CommitAcknowledgementLost(p)
  \/ \E p \in Procs : settle(p)
  \/ \E p \in Procs : retry(p)

Spec == Init /\ [][Next]_vars

----------------------------------------------------------------------------
(* Properties *)
RowsOfCall(p) == {r \in eventStore : r.eventId[1] = p}
Committed(p) == RowsOfCall(p) # {}
Appending(p) == call[p].op = "appendEvents"
Finished(p) == call[p].pc = "done"
ErrorKey(p) == call[p].result.errorKey

(* two callers whose current calls append to one aggregate with one expectedVersion *)
SameExpectedVersion(p, q) ==
  /\ p # q
  /\ Appending(p) /\ Appending(q)
  /\ call[p].aggregateId = call[q].aggregateId
  /\ call[p].expectedVersion # Undefined
  /\ call[p].expectedVersion = call[q].expectedVersion

(* p went through the version check, met no infrastructure failure and      *)
(* committed nothing, while q committed: p lost the race to q               *)
LostRace(p, q) ==
  /\ SameExpectedVersion(p, q)
  /\ call[p].passed /\ call[q].passed
  /\ call[p].injected = 0 /\ ~call[p].rejected
  /\ Finished(p) /\ ~Committed(p)
  /\ Committed(q)

(* C1: the committed events of every aggregate carry the eventVersion values *)
(* 1..N, each exactly once: no gap, no duplicate (aggregateId, eventVersion) *)
C1_GaplessUniqueVersions ==
  \A a \in AggregateIds :
    /\ {r.eventVersion : r \in RowsOf(a)} = 1..Cardinality(RowsOf(a))
    /\ \A r, s \in RowsOf(a) : r.eventVersion = s.eventVersion => r = s

(* C1 witness: an aggregate holds the batches of two calls, one of them     *)
(* committed by a retried attempt, and a concurrent writer was refused      *)
C1_Witness ==
  \E a \in AggregateIds :
    /\ Cardinality({r.eventId[1] : r \in RowsOf(a)}) = 2
    /\ Cardinality(RowsOf(a)) >= 3
    /\ \E r \in RowsOf(a) : r.eventId[2] >= 2

(* C2: no two committed events of different aggregates share a globalVersion *)
C2_GlobalVersionsDistinct ==
  \A r, s \in eventStore :
    r.aggregateId # s.aggregateId => r.globalVersion # s.globalVersion

(* C3: of two calls appending to one aggregate with one expectedVersion at  *)
(* most one returns success and at most one commits events                   *)
C3_AtMostOneWinner ==
  \A p, q \in Procs :
    SameExpectedVersion(p, q) =>
      /\ ~(ErrorKey(p) = "ok" /\ ErrorKey(q) = "ok")
      /\ ~(Committed(p) /\ Committed(q))

(* C3 witness: both calls passed the version check, one committed and       *)
(* returned success, the other finished without committing                   *)
C3_Witness ==
  \E p, q \in Procs : LostRace(p, q) /\ ErrorKey(q) = "ok"

(* C4: a writer that loses the race fails with ConcurrencyError (carrying   *)
(* the expected and the current version), not with AppendError               *)
C4_LoserGetsConcurrencyError ==
  \A p, q \in Procs :
    LostRace(p, q) =>
      /\ ErrorKey(p) = "EVENT_STORE_CONCURRENCY_ERROR"
      /\ call[p].result.expected = call[p].expectedVersion
      /\ call[p].result.current # call[p].expectedVersion

Concurrency == "EVENT_STORE_CONCURRENCY_ERROR"

(* the expectedVersion of p was already behind the stream when p was called *)
Stale(p) ==
  /\ Appending(p)
  /\ call[p].expectedVersion # Undefined
  /\ call[p].expectedVersion < call[p].versionAtCall

BatchRows(p, invocation) ==
  {r \in eventStore : r.eventId[1] = p /\ r.eventId[2] = invocation}

C6_BatchAtomic ==
  \A p \in Procs, invocation \in 1..(MAX_ATTEMPTS + 1) :
    \/ BatchRows(p, invocation) = {}
    \/ {r.eventId[3] : r \in BatchRows(p, invocation)} = 0..(call[p].n - 1)

(* C6 witness: an attempt that had written part of its batch was rolled back *)
(* and none of its rows is stored, next to a batch committed in full          *)
C6_Witness ==
  \E p \in Procs :
    /\ call[p].pc = "release" /\ call[p].outcome = "throw"
    /\ call[p].discarded >= 1 /\ call[p].discarded < call[p].n
    /\ BatchRows(p, call[p].invocations) = {}
    /\ \E q \in Procs : Cardinality(RowsOfCall(q)) >= 2

(* C7: a committed event is never removed or changed: the table only grows *)
C7_AppendOnly == [][eventStore \subseteq eventStore']_vars

(* C7 witness: events are stored, and since then an attempt was rolled back, *)
(* a call was retried and a snapshot was saved                                *)
C7_Witness ==
  \E p, q \in Procs :
    /\ p # q /\ eventStore # {}
    /\ Appending(p) /\ call[p].sleeps > 0 /\ Committed(p)
    /\ call[q].op = "saveSnapshot" /\ ErrorKey(q) = "ok"

C9_MismatchSingleAttempt ==
  \A p \in Procs :
    call[p].mismatchAt > 0 => call[p].invocations = 1 /\ call[p].sleeps = 0

(* C9 amended: the attempt that returns the version mismatch is the last of  *)
(* its call (no retry and no sleep follow it, the call returns               *)
(* ConcurrencyError), and it is the only one unless earlier attempts failed  *)
(* with storage errors                                                        *)
C9_MismatchNotRetried ==
  \A p \in Procs :
    call[p].mismatchAt > 0 =>
      /\ call[p].pc = "done"
      /\ call[p].invocations = call[p].mismatchAt
      /\ call[p].sleeps = call[p].mismatchAt - 1
      /\ call[p].injected = 0 => call[p].invocations = 1
      /\ Finished(p) => ErrorKey(p) = Concurrency

(* C9 witness: a mismatch detected by the first attempt has been surfaced *)
C9_Witness ==
  \E p \in Procs :
    /\ call[p].mismatchAt = 1 /\ Finished(p) /\ ErrorKey(p) = Concurrency
    /\ call[p].invocations = 1 /\ call[p].sleeps = 0

(* C10: an attempt that failed with an error of a permanent code class is    *)
(* the only attempt of its call                                               *)
PermanentCode(code) ==
  \/ code \in {<<"2", "3", "5", "0", "5">>, <<"2", "3", "5", "0", "3">>,
               <<"2", "3", "5", "1", "4">>}
  \/ startsWith(code, <<"2", "2">>)
  \/ startsWith(code, <<"4", "2">>)

C10_PermanentNeverRetried ==
  \A p \in Procs :
    PermanentCode(call[p].lastError.code) =>
      call[p].invocations = 1 /\ call[p].sleeps = 0

----------------------------------------------------------------------------
(* retryWithBackoff taken on its own: one call, its options drawn from     *)
(* small sets, its operation resolving or rejecting at every invocation    *)
MaxRetries == 3        \* largest maxRetries option of a call
MaxInvocations == MaxRetries + 3   \* invocations after which a run is cut off

RetryOptions == 0 .. MaxRetries
BaseDelays == {BASE_DELAY, 10 * BASE_DELAY}
ShouldRetryOptions == {"default", "isTransientError"}
RetryErrors == {ConnectionFailure, QueryTimeout, UniqueViolation}
JitterPercents == {0, 9}   \* Math.random() * 0.1, as hundredths of baseDelay

storeVars == <<eventStore, snapshots, circuitBreaker, now, call, faults, execution, breakerLog,
               query, inMemory>>

RECURSIVE Pow2(_)
Pow2(n) == IF n <= 0 THEN 1 ELSE 2 * Pow2(n - 1)

(* mutant: the delay is not capped *)
MinUncapped(a, b) == a

Min(a, b) == IF a <= b THEN a ELSE b

defaultShouldRetry(err) == TRUE

shouldRetry(kind, err) ==
  IF kind = "default" THEN defaultShouldRetry(err) ELSE isTransientError(err)

(* mutant: the budget is taken as spent one failure early *)
retriesExhaustedEarly(attempt, maxRetries) == attempt >= maxRetries

retriesExhausted(attempt, maxRetries) == attempt > maxRetries

(* the head of the while loop *)
loop(r) ==
  IF r.attempt <= r.maxRetries
  THEN [r EXCEPT !.pc = "operation", !.invocations = r.invocations + 1]
  ELSE [r EXCEPT !.pc = "thrown", !.thrown = r.lastError]

(* mutant: the catch block does not count the failed attempt *)
catchBlockNotCounting(r, err, jitter) ==
  LET c == [r EXCEPT !.lastError = err, !.failures = Append(r.failures, err)]
  IN IF ~shouldRetry(r.shouldRetry, err) THEN [c EXCEPT !.pc = "thrown", !.thrown = err]
     ELSE [c EXCEPT !.pc = "sleep", !.sleeps = r.sleeps + 1,
                    !.delay = Min(r.baseDelay * Pow2(r.attempt) + jitter, MAX_DELAY)]

(* mutant: the catch block consults the budget only *)
catchBlockIgnoringShouldRetry(r, err, jitter) ==
  LET attempt == r.attempt + 1
      c == [r EXCEPT !.lastError = err, !.attempt = attempt,
                     !.failures = Append(r.failures, err)]
  IN IF retriesExhausted(attempt, r.maxRetries) THEN [c EXCEPT !.pc = "thrown", !.thrown = err]
     ELSE [c EXCEPT !.pc = "sleep", !.sleeps = r.sleeps + 1,
                    !.delay = Min(r.baseDelay * Pow2(attempt - 1) + jitter, MAX_DELAY)]

(* the catch block, up to the await of sleep *)
catchBlock(r, err, jitter) ==
  LET attempt == r.attempt + 1
      c == [r EXCEPT !.lastError = err, !.attempt = attempt,
                     !.failures = Append(r.failures, err)]
  IN IF ~shouldRetry(r.shouldRetry, err) THEN [c EXCEPT !.pc = "thrown", !.thrown = err]
     ELSE IF retriesExhausted(attempt, r.maxRetries) THEN [c EXCEPT !.pc = "thrown", !.thrown = err]
     ELSE [c EXCEPT !.pc = "sleep", !.sleeps = r.sleeps + 1,
                    !.delay = Min(r.baseDelay * Pow2(attempt - 1) + jitter, MAX_DELAY)]

retryWithBackoff(maxRetries, baseDelay, kind) ==
  /\ retryRun.pc = "idle"
  /\ retryRun' = loop([IdleRetry EXCEPT !.maxRetries = maxRetries, !.baseDelay = baseDelay,
                                        !.shouldRetry = kind])
  /\ UNCHANGED storeVars

operationResolves ==
  /\ retryRun.pc = "operation"
  /\ retryRun' = [retryRun EXCEPT !.pc = "returned"]
  /\ UNCHANGED storeVars

operationRejects(err, percent) ==
  /\ retryRun.pc = "operation"
  /\ retryRun' = catchBlock(retryRun, err, (retryRun.baseDelay * percent) \div 100)
  /\ UNCHANGED storeVars

(* the timer of sleep fires: back to the head of the loop *)
sleepOver ==
  /\ retryRun.pc = "sleep"
  /\ retryRun.invocations < MaxInvocations
  /\ retryRun' = loop(retryRun)
  /\ UNCHANGED storeVars

NextRetry ==
  \/ \E maxRetries \in RetryOptions, baseDelay \in BaseDelays, kind \in ShouldRetryOptions :
       retryWithBackoff(maxRetries, baseDelay, kind)
  \/ operationResolves
  \/ \E err \in RetryErrors, percent \in JitterPercents : operationRejects(err, percent)
  \/ sleepOver

(* the operation's promise settles and the timer of sleep fires *)
SpecRetry == Init /\ [][NextRetry]_vars /\ WF_vars(NextRetry)

Retryable(err) == shouldRetry(retryRun.shouldRetry, err)
AllRetryable == \A i \in 1 .. Len(retryRun.failures) : Retryable(retryRun.failures[i])
Settled == retryRun.pc \in {"returned", "thrown"}

(* C11: a call of retryWithBackoff invokes its operation at most            *)
(* maxRetries + 1 times and then settles; when every invocation failed with *)
(* a retryable error it has invoked the operation exactly maxRetries + 1    *)
(* times and throws the error of the last invocation                        *)
C11_BoundedInvocations ==
  /\ [](/\ retryRun.invocations <= retryRun.maxRetries + 1
        /\ (retryRun.pc = "thrown" /\ AllRetryable) =>
             /\ retryRun.invocations = retryRun.maxRetries + 1
             /\ Len(retryRun.failures) = retryRun.invocations
             /\ retryRun.thrown = retryRun.failures[Len(retryRun.failures)])
  /\ (retryRun.pc # "idle") ~> Settled

(* C11 witness: the budget of three retries is spent on retryable errors,   *)
(* the last of them different from the first                                *)
C11_Witness ==
  /\ retryRun.pc = "thrown" /\ AllRetryable
  /\ retryRun.maxRetries = 3 /\ retryRun.invocations = 4
  /\ retryRun.failures[1] # retryRun.failures[4]

(* C12: a call whose operation failed with retryable errors k times         *)
(* (k <= maxRetries) is still running, and when the next invocation         *)
(* succeeds it returns after exactly k + 1 invocations and never invokes    *)
(* the operation again                                                      *)
C12_SuccessAfterFailures ==
  /\ [](/\ (AllRetryable /\ Len(retryRun.failures) <= retryRun.maxRetries) =>
             retryRun.pc # "thrown"
        /\ retryRun.pc = "returned" =>
             /\ AllRetryable
             /\ Len(retryRun.failures) <= retryRun.maxRetries
             /\ retryRun.invocations = Len(retryRun.failures) + 1)
  /\ [][retryRun.pc = "returned" => retryRun' = retryRun]_vars

(* C12 witness: two failures, then success at the third invocation *)
C12_Witness ==
  /\ retryRun.pc = "returned"
  /\ Len(retryRun.failures) = 2 /\ retryRun.invocations = 3

(* C13: once shouldRetry has returned false for a failure the call has      *)
(* thrown that error, with no sleep and no invocation after it, whatever    *)
(* budget is left; on the first failure that is exactly one invocation      *)
C13_NonRetryableRethrown ==
  \A i \in 1 .. Len(retryRun.failures) :
    ~Retryable(retryRun.failures[i]) =>
      /\ i = Len(retryRun.failures)
      /\ retryRun.pc = "thrown"
      /\ retryRun.thrown = retryRun.failures[i]
      /\ retryRun.invocations = i
      /\ retryRun.sleeps = i - 1

(* C13 witness: the first failure is not retryable and three retries are left *)
C13_Witness ==
  /\ retryRun.pc = "thrown" /\ retryRun.maxRetries = 3
  /\ Len(retryRun.failures) = 1 /\ ~Retryable(retryRun.failures[1])
  /\ retryRun.invocations = 1 /\ retryRun.sleeps = 0

----------------------------------------------------------------------------
(* CircuitBreaker.execute under the facade: appendEvents / saveSnapshot    *)
(* hand it retryWithBackoff(() => ...Internal(...)) as its operation. Each  *)
(* attempt of the operation is one transaction, which returns a Result or   *)
(* throws; retryWithBackoff decides about a thrown error as retryDecision   *)
Ops == {"appendEvents", "saveSnapshot"}

(* what one attempt can throw: a transient and a permanent error *)
AttemptErrors == {ConnectionFailure, UniqueViolation}

(* what one attempt can return: appendEventsInternal returns Result.ok or   *)
(* the Result of a version mismatch, saveSnapshotInternal Result.ok         *)
AttemptResults(op) ==
  IF op = "appendEvents" THEN {Ok, ConcurrencyError(0, 1)} ELSE {Ok}

(* execute up to the await of operation(), and the catch of the facade     *)
(* when execute throws CircuitBreakerOpenError                             *)
execute(p, op) ==
  /\ execution[p].pc = "idle"
  /\ LET e == [IdleExecution EXCEPT !.op = op]
         trialInFlight == breakerLog.trial # "none"
     IN IF CircuitRejects
        THEN /\ execution' = [execution EXCEPT ![p] =
                                [e EXCEPT !.outcome = "rejected", !.result = FacadeError(op)]]
             /\ UNCHANGED <<circuitBreaker, breakerLog>>
        ELSE /\ execution' = [execution EXCEPT ![p] =
                                [e EXCEPT !.pc = "operation",
                                          !.trial = circuitBreaker.state = "OPEN",
                                          !.duringTrial = circuitBreaker.state = "HALF_OPEN"
                                                          /\ trialInFlight]]
             /\ breakerLog' = [breakerLog EXCEPT
                                 !.halfOpenSuccesses =
                                    IF circuitBreaker.state = "OPEN" THEN 0 ELSE @,
                                 !.trial = IF circuitBreaker.state = "OPEN" THEN p ELSE @,
                                 !.halfOpenFailure =
                                    IF circuitBreaker.state = "HALF_OPEN" /\ @ = "kept"
                                    THEN "admitted" ELSE @]
             /\ circuitBreaker' = executeEnter(circuitBreaker)
  /\ UNCHANGED <<eventStore, snapshots, now, call, faults, retryRun, query, inMemory>>

(* mutant: every failed attempt is recorded by the breaker *)
attemptFailsRecorded(p, err) ==
  /\ execution[p].pc = "operation"
  /\ retryDecision([lastError |-> err, attempt |-> execution[p].attempt]) = "sleep"
  /\ execution' = [execution EXCEPT ![p].attempt = @ + 1]
  /\ circuitBreaker' = onFailure(circuitBreaker)
  /\ UNCHANGED <<eventStore, snapshots, now, call, faults, retryRun, query, inMemory, breakerLog>>

(* an attempt throws and retryWithBackoff goes on: its catch counts the     *)
(* attempt, sleeps and the loop invokes the operation again, all inside the *)
(* one operation() that execute awaits                                      *)
attemptFails(p, err) ==
  /\ execution[p].pc = "operation"
  /\ retryDecision([lastError |-> err, attempt |-> execution[p].attempt]) = "sleep"
  /\ execution' = [execution EXCEPT ![p].attempt = @ + 1]
  /\ UNCHANGED <<eventStore, snapshots, now, call, faults, retryRun, query, inMemory,
                 circuitBreaker, breakerLog>>

(* mutant: a Result carrying the version mismatch is recorded as a failure *)
operationReturnsCountingMismatch(p, result) ==
  /\ execution[p].pc = "operation"
  /\ result \in AttemptResults(execution[p].op)
  /\ circuitBreaker' = IF result = Ok THEN onSuccess(circuitBreaker)
                       ELSE onFailure(circuitBreaker)
  /\ execution' = [execution EXCEPT ![p] =
                      [IdleExecution EXCEPT !.op = execution[p].op, !.outcome = "returned",
                                            !.result = result]]
  /\ breakerLog' = [breakerLog EXCEPT !.trial = IF @ = p THEN "none" ELSE @]
  /\ UNCHANGED <<eventStore, snapshots, now, call, faults, retryRun, query, inMemory>>

(* operation() resolves: onSuccess, and the facade returns the Result *)
operationReturns(p, result) ==
  /\ execution[p].pc = "operation"
  /\ result \in AttemptResults(execution[p].op)
  /\ circuitBreaker' = onSuccess(circuitBreaker)
  /\ execution' = [execution EXCEPT ![p] =
                      [IdleExecution EXCEPT !.op = execution[p].op, !.outcome = "returned",
                                            !.result = result]]
  /\ breakerLog' = [breakerLog EXCEPT
                      !.streak = 0,
                      !.streakExhausted = TRUE,
                      !.halfOpenSuccesses =
                         IF circuitBreaker.state = "HALF_OPEN"
                         THEN IF circuitBreaker'.state = "CLOSED" THEN 0 ELSE @ + 1
                         ELSE @,
                      !.halfOpenFailure =
                         IF circuitBreaker'.state = "HALF_OPEN" THEN @ ELSE "none",
                      !.trial = IF @ = p THEN "none" ELSE @]
  /\ UNCHANGED <<eventStore, snapshots, now, call, faults, retryRun, query, inMemory>>

(* operation() rejects, retryWithBackoff having thrown the error of the     *)
(* last attempt: onFailure, and the facade's catch builds the Result        *)
operationThrows(p, err) ==
  /\ execution[p].pc = "operation"
  /\ retryDecision([lastError |-> err, attempt |-> execution[p].attempt]) = "throw"
  /\ circuitBreaker' = onFailure(circuitBreaker)
  /\ execution' = [execution EXCEPT ![p] =
                      [IdleExecution EXCEPT !.op = execution[p].op, !.outcome = "thrown",
                                            !.result = FacadeError(execution[p].op)]]
  /\ breakerLog' = [breakerLog EXCEPT
                      !.streak = @ + 1,
                      !.streakExhausted = @ /\ execution[p].attempt = MAX_ATTEMPTS,
                      !.halfOpenSuccesses = 0,
                      !.openedAt = IF circuitBreaker.state = "CLOSED"
                                      /\ circuitBreaker'.state = "OPEN" THEN now ELSE @,
                      !.halfOpenFailure =
                         IF circuitBreaker.state = "HALF_OPEN"
                            /\ circuitBreaker'.state = "HALF_OPEN" THEN "kept" ELSE "none",
                      !.trial = IF @ = p THEN "none" ELSE @]
  /\ UNCHANGED <<eventStore, snapshots, now, call, faults, retryRun, query, inMemory>>

NextBreaker ==
  \/ \E p \in Procs, op \in Ops : execute(p, op)
  \/ \E p \in Procs, err \in AttemptErrors : attemptFails(p, err)
  \/ \E p \in Procs, result \in {Ok, ConcurrencyError(0, 1)} : operationReturns(p, result)
  \/ \E p \in Procs, err \in AttemptErrors : operationThrows(p, err)
  \/ Tick

SpecBreaker == Init /\ [][NextBreaker]_vars

Opens == circuitBreaker.state = "CLOSED" /\ circuitBreaker'.state = "OPEN"
Closes == circuitBreaker.state = "HALF_OPEN" /\ circuitBreaker'.state = "CLOSED"
RecordsSuccess ==
  \E p \in Procs : execution[p].pc = "operation" /\ execution'[p].outcome = "returned"
                   /\ execution'[p].pc = "idle"
RecordsFailure ==
  \E p \in Procs : execution[p].pc = "operation" /\ execution'[p].outcome = "thrown"
                   /\ execution'[p].pc = "idle"
Calls(p) == execution[p].pc = "idle" /\ execution'[p] # execution[p]
(* the time is before (time of the last opening from CLOSED) + timeout *)
InCooldown == breakerLog.openedAt >= 0 /\ now < breakerLog.openedAt + CIRCUIT_TIMEOUT

(* C14: a CLOSED breaker opens exactly at the step that records the         *)
(* CIRCUIT_FAILURE_THRESHOLD-th failure in a row (no success in between),   *)
(* setting nextAttempt to now + timeout; and no call made before (time of   *)
(* opening + timeout) has its operation invoked: it gets the error of the   *)
(* open circuit                                                              *)
C14_OpensAtThreshold ==
  [][/\ circuitBreaker.state = "CLOSED" =>
          (circuitBreaker'.state = "OPEN" <=>
             (RecordsFailure /\ breakerLog'.streak = CIRCUIT_FAILURE_THRESHOLD))
     /\ Opens => circuitBreaker'.nextAttempt = now + CIRCUIT_TIMEOUT
     /\ InCooldown =>
          /\ circuitBreaker.state = "OPEN" /\ now < circuitBreaker.nextAttempt
          /\ \A p \in Procs :
               execution[p].pc = "idle" =>
                 /\ execution'[p].pc = "idle"
                 /\ Calls(p) => execution'[p].outcome = "rejected"]_vars

(* C14 witness: the fifth failure in a row has opened the breaker and a     *)
(* call made during the cooldown was rejected (the breaker has been open    *)
(* once: the clock has not moved)                                           *)
C14_Witness ==
  /\ circuitBreaker.state = "OPEN" /\ now < circuitBreaker.nextAttempt
  /\ breakerLog.streak = CIRCUIT_FAILURE_THRESHOLD
  /\ breakerLog.openedAt = now /\ now = 0
  /\ \E p \in Procs : execution[p].outcome = "rejected"

(* C15: while the breaker is HALF_OPEN and the trial call admitted at the   *)
(* OPEN -> HALF_OPEN transition is in flight, no other call is admitted     *)
C15_SingleTrial ==
  \A q \in Procs : ~(execution[q].pc = "operation" /\ execution[q].duringTrial)

(* C16: a HALF_OPEN breaker closes exactly at the step that records the     *)
(* CIRCUIT_SUCCESS_THRESHOLD-th success in HALF_OPEN with no failure in     *)
(* between; a failure puts the success count back to zero; on closing both  *)
(* counters are zero                                                        *)
C16_ClosesAtThreshold ==
  [][/\ circuitBreaker.state = "HALF_OPEN" =>
          /\ circuitBreaker.successCount = breakerLog.halfOpenSuccesses
          /\ circuitBreaker'.state = "CLOSED" <=>
               (RecordsSuccess
                  /\ breakerLog.halfOpenSuccesses + 1 = CIRCUIT_SUCCESS_THRESHOLD)
     /\ circuitBreaker'.state = "CLOSED" /\ circuitBreaker.state # "CLOSED" => Closes
     /\ Closes => circuitBreaker'.failureCount = 0 /\ circuitBreaker'.successCount = 0
     /\ RecordsFailure => circuitBreaker'.successCount = 0]_vars

(* C16 witness: the breaker, opened earlier, has closed again with both     *)
(* counters at zero                                                         *)
C16_Witness ==
  /\ circuitBreaker.state = "CLOSED" /\ breakerLog.openedAt >= 0
  /\ circuitBreaker.failureCount = 0 /\ circuitBreaker.successCount = 0
  /\ \A p \in Procs : execution[p].pc = "idle"

(* C17: the Result of a write rejected by the open circuit has an error     *)
(* kind other than that of a storage failure                                *)
StorageFailureKeys == {FacadeError(op).errorKey : op \in Ops}

C17_CircuitOpenDistinct ==
  \A p \in Procs :
    execution[p].outcome = "rejected" => execution[p].result.errorKey \notin StorageFailureKeys

----------------------------------------------------------------------------
Snapshotting(p) == call[p].op = "saveSnapshot"
Persists(p) ==
  /\ call[p].pc \in {"insertSnapshot", "updateSnapshot"}
  /\ call'[p].pc = "release" /\ call'[p].outcome = "ok"

(* C18: at most one snapshot row is kept per aggregate, exactly one once a  *)
(* saveSnapshot of the aggregate has succeeded, and at the step where a     *)
(* save goes through, getSnapshot returns its data and version, whatever    *)
(* row of the aggregate was there before                                    *)
C18_LatestSnapshotWins ==
  [][/\ \A a \in AggregateIds : Cardinality(SnapshotsOf(a)') <= 1
     /\ \A p \in Procs :
          /\ Persists(p) =>
               getSnapshot(call[p].aggregateId)' =
                 [version |-> call[p].version, snapshotData |-> call[p].snapshot]
          /\ (Snapshotting(p) /\ call'[p].result = Ok) =>
               Cardinality(SnapshotsOf(call[p].aggregateId)') = 1]_vars

(* C18 witness: a snapshot at version 2 has replaced the snapshot with      *)
(* other data at version 1 of the same aggregate, both calls successful     *)
C18_Witness ==
  \E p, q \in Procs :
    /\ Snapshotting(p) /\ Snapshotting(q) /\ call[p].result = Ok /\ call[q].result = Ok
    /\ call[p].aggregateId = call[q].aggregateId
    /\ call[q].version = 1 /\ call[p].version = 2 /\ call[p].snapshot # call[q].snapshot
    /\ getSnapshot(call[p].aggregateId) =
         [version |-> 2, snapshotData |-> call[p].snapshot]
    /\ Cardinality(SnapshotsOf(call[p].aggregateId)) = 1

----------------------------------------------------------------------------
(* The read-only queries, applied to the stores that appendEvents builds:  *)
(* two writers append, then a reader makes one query                       *)
MaxQueryVersion == 3   \* largest fromVersion / toVersion a reader passes

QueryVersions == {Undefined} \cup 0 .. MaxQueryVersion   \* Undefined: omitted

(* mapEntityToStoredEvent: the StoredDomainEvent built from a row; it has   *)
(* no globalVersion                                                         *)
mapEntityToStoredEvent(entity) ==
  [eventId |-> entity.eventId, aggregateId |-> entity.aggregateId,
   eventType |-> entity.eventType, eventVersion |-> entity.eventVersion]

(* ORDER BY column ASC ... getMany(): the orders the database may return,   *)
(* rows of equal column value in any order                                  *)
RECURSIVE orderBy(_, _)
orderBy(rows, column) ==
  IF rows = {} THEN {<<>>}
  ELSE UNION {{<<r>> \o rest : rest \in orderBy(rows \ {r}, column)} :
                r \in {x \in rows : \A y \in rows : x[column] <= y[column]}}

(* mutant: fromVersion taken as an inclusive bound *)
eventsForAggregateFromInclusive(aggregateId, fromVersion) ==
  {r \in eventStore :
     /\ r.aggregateId = aggregateId
     /\ fromVersion # Undefined => r.eventVersion >= fromVersion}

(* the WHERE clauses of getEventsForAggregate *)
eventsForAggregateWhere(aggregateId, fromVersion) ==
  {r \in eventStore :
     /\ r.aggregateId = aggregateId
     /\ fromVersion # Undefined => r.eventVersion > fromVersion}

(* mutant: toVersion taken as an exclusive bound *)
allEventsToExclusive(fromVersion, toVersion) ==
  {r \in eventStore :
     /\ fromVersion # Undefined => r.globalVersion > fromVersion
     /\ toVersion # Undefined => r.globalVersion < toVersion}

(* the WHERE clauses of getAllEvents *)
allEventsWhere(fromVersion, toVersion) ==
  {r \in eventStore :
     /\ fromVersion # Undefined => r.globalVersion > fromVersion
     /\ toVersion # Undefined => r.globalVersion <= toVersion}

storedEvents(events) == [i \in 1 .. Len(events) |-> mapEntityToStoredEvent(events[i])]

getEventsForAggregate(aggregateId, fromVersion) ==
  /\ query.pc = "idle"
  /\ \E events \in orderBy(eventsForAggregateWhere(aggregateId, fromVersion), "eventVersion") :
       query' = [pc |-> "done", op |-> "getEventsForAggregate", aggregateId |-> aggregateId,
                 eventType |-> "none",
                 fromVersion |-> fromVersion, toVersion |-> Undefined,
                 result |-> storedEvents(events)]
  /\ UNCHANGED <<eventStore, snapshots, circuitBreaker, now, call, faults>>
  /\ UNCHANGED <<retryRun, execution, breakerLog, inMemory>>

getAllEvents(fromVersion, toVersion) ==
  /\ query.pc = "idle"
  /\ \E events \in orderBy(allEventsWhere(fromVersion, toVersion), "globalVersion") :
       query' = [pc |-> "done", op |-> "getAllEvents", aggregateId |-> "A",
                 eventType |-> "none",
                 fromVersion |-> fromVersion, toVersion |-> toVersion,
                 result |-> storedEvents(events)]
  /\ UNCHANGED <<eventStore, snapshots, circuitBreaker, now, call, faults>>
  /\ UNCHANGED <<retryRun, execution, breakerLog, inMemory>>

(* the writers run until the reader's query, which ends the behaviour *)
NextQuery ==
  \/ /\ query.pc = "idle"
     /\ \E p \in Procs, a \in AggregateIds, n \in 1..MaxEvents, e \in ExpectedVersions :
          appendEvents(p, a, n, e)
  \/ \E p \in Procs : query.pc = "idle" /\ checkVersion(p)
  \/ \E p \in Procs : query.pc = "idle" /\ assignVersions(p)
  \/ \E p \in Procs : query.pc = "idle" /\ save(p)
  \/ \E p \in Procs : query.pc = "idle" /\ commitTransaction(p)
  \/ \E p \in Procs : query.pc = "idle" /\ settle(p)
  \/ \E a \in AggregateIds, v \in QueryVersions : getEventsForAggregate(a, v)
  \/ \E from \in QueryVersions, to \in QueryVersions : getAllEvents(from, to)

SpecQuery == Init /\ [][NextQuery]_vars

Returned(op) == query.pc = "done" /\ query.op = op
ResultIds == {query.result[i].eventId : i \in 1 .. Len(query.result)}
RowOf(event) == CHOOSE r \in eventStore : r.eventId = event.eventId
Given(version) == version # Undefined

(* C19: getEventsForAggregate(id, v) returns each committed event of the    *)
(* aggregate with eventVersion > v (each of its events when v is omitted)   *)
(* once and no other event, in ascending eventVersion order: the versions   *)
(* v + 1 .. N in this order, N the aggregate's current version              *)
C19_EventsAfterVersion ==
  Returned("getEventsForAggregate") =>
    LET res == query.result
        rows == RowsOf(query.aggregateId)
        v == IF Given(query.fromVersion) THEN query.fromVersion ELSE 0
        N == MaxOf({r.eventVersion : r \in rows})
    IN /\ ResultIds = {r.eventId : r \in {x \in rows : x.eventVersion > v}}
       /\ Len(res) = Cardinality(ResultIds)
       /\ \A i \in 1 .. Len(res) :
            /\ res[i].aggregateId = query.aggregateId
            /\ res[i].eventVersion = RowOf(res[i]).eventVersion
            /\ res[i].eventVersion = v + i
       /\ Len(res) = IF v <= N THEN N - v ELSE 0

(* C19 witness: the events after version 1 of an aggregate at version 3 *)
C19_Witness ==
  /\ Returned("getEventsForAggregate") /\ query.fromVersion = 1
  /\ Len(query.result) = 2
  /\ query.result[1].eventVersion = 2 /\ query.result[2].eventVersion = 3

(* C20: getAllEvents(fromVersion, toVersion) returns each committed event   *)
(* with fromVersion < globalVersion <= toVersion (a bound that is omitted   *)
(* does not restrict) once and no other event, in ascending globalVersion   *)
(* order                                                                    *)
C20_AllEventsInRange ==
  Returned("getAllEvents") =>
    LET res == query.result
        inRange == {r \in eventStore :
                      /\ Given(query.fromVersion) => query.fromVersion < r.globalVersion
                      /\ Given(query.toVersion) => r.globalVersion <= query.toVersion}
    IN /\ ResultIds = {r.eventId : r \in inRange}
       /\ Len(res) = Cardinality(ResultIds)
       /\ \A i, j \in 1 .. Len(res) :
            i < j => RowOf(res[i]).globalVersion <= RowOf(res[j]).globalVersion

(* C20 witness: a range that leaves out events below and above it *)
C20_Witness ==
  /\ Returned("getAllEvents") /\ query.fromVersion = 1 /\ query.toVersion = 3
  /\ Len(query.result) >= 2
  /\ \E r \in eventStore : r.globalVersion = 1
  /\ \E r \in eventStore : r.globalVersion = 4

----------------------------------------------------------------------------
(* C21: the sleep after the a-th failed invocation is                       *)
(* min(baseDelay * 2^(a-1) + jitter, maxDelay) for a jitter between 0 and   *)
(* baseDelay / 10: at most maxDelay, at least min(baseDelay * 2^(a-1),      *)
(* maxDelay)                                                                *)
C21_BackoffDelay ==
  retryRun.pc = "sleep" =>
    LET a == Len(retryRun.failures)
        exponentialDelay == retryRun.baseDelay * Pow2(a - 1)
        floor == IF exponentialDelay <= MAX_DELAY THEN exponentialDelay ELSE MAX_DELAY
    IN /\ a >= 1 /\ a = retryRun.sleeps
       /\ retryRun.delay <= MAX_DELAY
       /\ retryRun.delay >= floor
       /\ \E jitter \in 0 .. (retryRun.baseDelay \div 10) :
            retryRun.delay = IF exponentialDelay + jitter <= MAX_DELAY
                             THEN exponentialDelay + jitter ELSE MAX_DELAY

(* C21 witness: the third sleep of a call with baseDelay 1000 is cut to     *)
(* maxDelay                                                                 *)
C21_Witness ==
  /\ retryRun.pc = "sleep" /\ Len(retryRun.failures) = 3
  /\ retryRun.baseDelay * Pow2(2) > MAX_DELAY
  /\ retryRun.delay = MAX_DELAY

----------------------------------------------------------------------------
(* the current attempt of p's call failed and retryWithBackoff goes on *)
AttemptFailed(p) ==
  /\ execution[p].pc = "operation" /\ execution'[p].pc = "operation"
  /\ execution'[p].attempt = execution[p].attempt + 1
Exhausted(p) ==
  /\ execution[p].pc = "operation" /\ execution[p].attempt = MAX_ATTEMPTS
  /\ execution'[p].pc = "idle" /\ execution'[p].outcome = "thrown"

----------------------------------------------------------------------------
(* the retry of p's call reads the current version (checkVersion, not a     *)
(* failure of the version query)                                            *)
RetryReads(p) ==
  /\ call[p].op = "appendEvents" /\ call[p].pc = "version" /\ call[p].invocations >= 2
  /\ call'[p].pc \in {"global", "release"} /\ call'[p].outcome # "throw"

(* rows of p's aggregate that another writer committed after p's attempt failed *)
CommittedSinceFailure(p) ==
  {r \in RowsOf(call[p].aggregateId) :
     r.eventId[1] # p /\ r.eventVersion > call[p].versionAtFailure}

RetryAfterOtherCommit(p) == RetryReads(p) /\ CommittedSinceFailure(p) # {}

(* C23 as stated: every retry starts with the version query; when another  *)
(* writer has committed to the aggregate        *)
(* between the failed attempt and its retry, the retry reads the version    *)
(* anew; with an expectedVersion it ends in the version mismatch, without   *)
(* one it takes the other writer's last version as its base; the versions   *)
(* of every aggregate stay 1..N                                             *)
C23_RetryRereadsVersion ==
  [][\A p \in Procs :
     /\ call[p].pc = "sleep" /\ call[p].op = "appendEvents" =>
          call'[p].pc \in {"sleep", "version"}
     /\ RetryAfterOtherCommit(p) =>
         /\ call'[p].currentVersion = getCurrentVersionInTransaction(call[p].aggregateId)
         /\ \A r \in CommittedSinceFailure(p) : call'[p].currentVersion >= r.eventVersion
         /\ IF call[p].expectedVersion # Undefined
            THEN call'[p].outcome = "concurrency"
            ELSE call'[p].pc = "global"
         /\ C1_GaplessUniqueVersions']_vars

(* C23 amended: the same, for an expectedVersion that was not ahead of the  *)
(* aggregate's version when the attempt failed                              *)
C23_RetryRereadsVersionAmended ==
  [][\A p \in Procs :
     /\ call[p].pc = "sleep" /\ call[p].op = "appendEvents" =>
          call'[p].pc \in {"sleep", "version"}
     /\ RetryAfterOtherCommit(p) =>
         /\ call'[p].currentVersion = getCurrentVersionInTransaction(call[p].aggregateId)
         /\ \A r \in CommittedSinceFailure(p) : call'[p].currentVersion >= r.eventVersion
         /\ IF call[p].expectedVersion = Undefined
            THEN call'[p].pc = "global"
            ELSE call[p].expectedVersion <= call[p].versionAtFailure =>
                   call'[p].outcome = "concurrency"
         /\ C1_GaplessUniqueVersions']_vars

(* C23 witness: a call with an expectedVersion, retried after another       *)
(* writer's commit, has ended in ConcurrencyError on its second attempt     *)
C23_Witness ==
  \E p \in Procs :
    /\ call[p].pc = "done" /\ call[p].invocations = 2 /\ call[p].passed
    /\ call[p].result = ConcurrencyError(call[p].expectedVersion,
                                         Cardinality(RowsOf(call[p].aggregateId)))
    /\ \A r \in RowsOf(call[p].aggregateId) : r.eventId[1] # p

----------------------------------------------------------------------------
(* C24: a failure recorded while HALF_OPEN opens the breaker only when it   *)
(* brings failureCount to CIRCUIT_FAILURE_THRESHOLD; below it the breaker   *)
(* stays HALF_OPEN with successCount back at zero, and the next call is     *)
(* admitted                                                                 *)
C24_HalfOpenFailureBelowThreshold ==
  [][/\ RecordsFailure /\ circuitBreaker.state = "HALF_OPEN" =>
          /\ circuitBreaker'.state =
               IF circuitBreaker.failureCount + 1 >= CIRCUIT_FAILURE_THRESHOLD
               THEN "OPEN" ELSE "HALF_OPEN"
          /\ circuitBreaker'.successCount = 0
     /\ \A p \in Procs :
          circuitBreaker.state = "HALF_OPEN" /\ Calls(p) =>
            execution'[p].pc = "operation" /\ circuitBreaker'.state = "HALF_OPEN"]_vars

(* C24 witness: an operation has failed while the breaker was HALF_OPEN,    *)
(* the breaker has stayed HALF_OPEN and has admitted another call since     *)
C24_Witness ==
  /\ circuitBreaker.state = "HALF_OPEN"
  /\ breakerLog.halfOpenFailure = "admitted"
  /\ circuitBreaker.failureCount >= 1
  /\ circuitBreaker.failureCount < CIRCUIT_FAILURE_THRESHOLD
  /\ \E p \in Procs : execution[p].pc = "operation"

----------------------------------------------------------------------------
(* p's appendEvents call ends with the Result of a version mismatch *)
EndsInConcurrencyError(p) ==
  /\ execution[p].pc = "operation" /\ execution'[p].pc = "idle"
  /\ execution'[p].result.errorKey = Concurrency

----------------------------------------------------------------------------
(* CircuitBreaker.reset, which an administrator or a test may call at any   *)
(* time, beside the callers of execute                                      *)

(* mutant: reset closes the breaker and keeps its counters *)
resetKeepingCounters ==
  /\ circuitBreaker' = [circuitBreaker EXCEPT !.state = "CLOSED", !.nextAttempt = now]
  /\ breakerLog' = NoLog
  /\ UNCHANGED <<eventStore, snapshots, now, call, faults, retryRun, query, inMemory, execution>>

reset ==
  /\ circuitBreaker' = [state |-> "CLOSED", failureCount |-> 0, successCount |-> 0,
                        nextAttempt |-> now]
  /\ breakerLog' = NoLog
  /\ UNCHANGED <<eventStore, snapshots, now, call, faults, retryRun, query, inMemory, execution>>

NextReset ==
  \/ NextBreaker
  \/ reset

SpecReset == Init /\ [][NextReset]_vars

(* C26: successCount is non-zero only while HALF_OPEN and is below          *)
(* CIRCUIT_SUCCESS_THRESHOLD; failureCount is below                         *)
(* CIRCUIT_FAILURE_THRESHOLD whenever the breaker is CLOSED                 *)
C26_CountersInRange ==
  /\ circuitBreaker.successCount >= 0 /\ circuitBreaker.failureCount >= 0
  /\ circuitBreaker.successCount # 0 => circuitBreaker.state = "HALF_OPEN"
  /\ circuitBreaker.successCount < CIRCUIT_SUCCESS_THRESHOLD
  /\ circuitBreaker.state = "CLOSED" =>
       circuitBreaker.failureCount < CIRCUIT_FAILURE_THRESHOLD

(* C26 witness: after a reset the CLOSED breaker is one failure below the   *)
(* threshold while the trial call admitted at an earlier OPEN -> HALF_OPEN  *)
(* transition is still in flight                                            *)
C26_Witness ==
  /\ circuitBreaker.state = "CLOSED"
  /\ circuitBreaker.failureCount = CIRCUIT_FAILURE_THRESHOLD - 1
  /\ breakerLog.openedAt = -1
  /\ \E p \in Procs : execution[p].pc = "operation" /\ execution[p].trial

----------------------------------------------------------------------------
(* Recovery of the breaker. An operation that execute awaits settles: the   *)
(* retry loop inside it is bounded (C11) and each attempt returns or throws *)
Settles(p) ==
  \/ \E err \in AttemptErrors : attemptFails(p, err) \/ operationThrows(p, err)
  \/ \E result \in AttemptResults(execution[p].op) : operationReturns(p, result)

NextRecovery ==
  \/ \E p \in Procs : execute(p, "appendEvents")
  \/ \E p \in Procs : Settles(p)
  \/ Tick

SpecRecovery ==
  Init /\ [][NextRecovery]_vars /\ \A p \in Procs : WF_vars(Settles(p))

(* a call is admitted: the breaker is not OPEN, or its cooldown has elapsed *)
Admitted == \E p \in Procs : execution[p].pc = "idle" /\ execution'[p].pc = "operation"
(* an invoked operation fails: an attempt or the whole operation *)
OperationFails == RecordsFailure \/ \E p \in Procs : AttemptFailed(p)

(* C27: if from some point on no invoked operation fails, and calls keep    *)
(* being admitted (execute keeps being called when the breaker is not in    *)
(* its cooldown), then from some point on the breaker is CLOSED for good    *)
C27_RecoveryIsLive ==
  (<>[][~OperationFails]_vars /\ []<><<Admitted>>_vars)
    => <>[](circuitBreaker.state = "CLOSED")

(* C27 witness: the breaker, opened earlier, is CLOSED again after its      *)
(* cooldown has elapsed, the last recorded outcome being a success          *)
C27_Witness ==
  /\ circuitBreaker.state = "CLOSED" /\ breakerLog.openedAt >= 0
  /\ now >= breakerLog.openedAt + CIRCUIT_TIMEOUT
  /\ breakerLog.streak = 0 /\ circuitBreaker.failureCount = 0
  /\ \E p \in Procs : execution[p].outcome = "returned"

----------------------------------------------------------------------------
(* the attempts (invocations of appendEventsInternal) of p's call whose     *)
(* transaction has rows in the table                                        *)
CommittedAttempts(p) == {r.eventId[2] : r \in {s \in eventStore : s.eventId[1] = p}}

(* C28: at most one of the attempts of a call has committed its             *)
(* transaction: the events of the call are in the table at most once        *)
C28_AtMostOneCommit ==
  \A p \in Procs : Cardinality(CommittedAttempts(p)) <= 1

----------------------------------------------------------------------------
(* C29: of two committed events of one aggregate the one with the smaller   *)
(* eventVersion has the strictly smaller globalVersion                      *)
C29_GlobalOrderWithinAggregate ==
  \A r, s \in eventStore :
    r.aggregateId = s.aggregateId /\ r.eventVersion < s.eventVersion =>
      r.globalVersion < s.globalVersion

(* C29 witness: an aggregate holds two events of different transactions     *)
(* while an append to the other aggregate, concurrent with one of them, has *)
(* committed under a globalVersion that an event of the first also carries  *)
C29_Witness ==
  \E r, s, t \in eventStore :
    /\ r.aggregateId = s.aggregateId /\ r.eventVersion < s.eventVersion
    /\ <<r.eventId[1], r.eventId[2]>> # <<s.eventId[1], s.eventId[2]>>
    /\ t.aggregateId # r.aggregateId
    /\ t.globalVersion \in {r.globalVersion, s.globalVersion}

----------------------------------------------------------------------------
(* InMemoryEventStore beside PostgreSqlEventStore: the calls that           *)
(* PostgreSqlEventStore has answered with success are given to              *)
(* InMemoryEventStore in the same order, one after the other, and a reader  *)
(* puts one query to both                                                   *)

(* the WHERE clauses of PostgreSqlEventStore.getEventsByType *)
eventsByTypeWhere(eventType, fromVersion) ==
  {r \in eventStore :
     /\ r.eventType = eventType
     /\ fromVersion # Undefined => r.globalVersion > fromVersion}

getEventsByType(eventType, fromVersion) ==
  /\ query.pc = "idle"
  /\ \E events \in orderBy(eventsByTypeWhere(eventType, fromVersion), "globalVersion") :
       query' = [pc |-> "done", op |-> "getEventsByType", aggregateId |-> "A",
                 eventType |-> eventType,
                 fromVersion |-> fromVersion, toVersion |-> Undefined,
                 result |-> storedEvents(events)]
  /\ UNCHANGED <<eventStore, snapshots, circuitBreaker, now, call, faults>>
  /\ UNCHANGED <<retryRun, execution, breakerLog, inMemory>>

(* InMemoryEventStore.getCurrentVersion *)
getCurrentVersion(events, aggregateId) ==
  MaxOf({events[i].eventVersion :
           i \in {j \in 1 .. Len(events) : events[j].aggregateId = aggregateId}})

(* InMemoryEventStore.appendEvents: the store it leaves *)
inMemoryAppendEvents(store, id, aggregateId, n, expectedVersion) ==
  IF expectedVersion # Undefined
     /\ getCurrentVersion(store.events, aggregateId) # expectedVersion
  THEN store
  ELSE LET currentVersion == getCurrentVersion(store.events, aggregateId)
           stored == [i \in 1 .. n |->
                        [eventId |-> <<id, 1, i - 1>>, aggregateId |-> aggregateId,
                         eventType |-> eventTypeOf(i - 1),
                         eventVersion |-> currentVersion + (i - 1) + 1]]
       IN [store EXCEPT !.events = store.events \o stored,
                        !.globalVersion = store.globalVersion + n]

(* Array.prototype.sort((a, b) => a.eventVersion - b.eventVersion): stable, *)
(* events of equal eventVersion keep the order of the array                 *)
RECURSIVE sortByEventVersion(_)
sortByEventVersion(events) ==
  IF events = <<>> THEN <<>>
  ELSE LET front == sortByEventVersion(SubSeq(events, 1, Len(events) - 1))
           e == events[Len(events)]
           k == Cardinality({i \in 1 .. Len(front) : front[i].eventVersion <= e.eventVersion})
       IN SubSeq(front, 1, k) \o <<e>> \o SubSeq(front, k + 1, Len(front))

inMemoryGetEventsByType(events, eventType, fromVersion) ==
  LET ofType(e) == e.eventType = eventType
      after(e) == fromVersion = Undefined \/ e.eventVersion > fromVersion
  IN sortByEventVersion(SelectSeq(SelectSeq(events, ofType), after))

inMemoryGetAllEvents(events, fromVersion, toVersion) ==
  LET after(e) == fromVersion = Undefined \/ e.eventVersion > fromVersion
      upTo(e) == toVersion = Undefined \/ e.eventVersion <= toVersion
  IN sortByEventVersion(SelectSeq(SelectSeq(events, after), upTo))

(* the call of p has returned from PostgreSqlEventStore: when it succeeded  *)
(* InMemoryEventStore.appendEvents is called with its arguments             *)
replay(p) ==
  /\ call[p].pc = "done" /\ p \notin inMemory.applied
  /\ inMemory' =
       IF call[p].result = Ok
       THEN [inMemoryAppendEvents(inMemory, p, call[p].aggregateId, call[p].n,
                                  call[p].expectedVersion)
               EXCEPT !.applied = inMemory.applied \cup {p}]
       ELSE [inMemory EXCEPT !.applied = inMemory.applied \cup {p}]
  /\ UNCHANGED <<eventStore, snapshots, circuitBreaker, now, call, faults>>
  /\ UNCHANGED <<retryRun, execution, breakerLog, query>>

(* the reader's query, answered by PostgreSqlEventStore, put to             *)
(* InMemoryEventStore                                                       *)
inMemoryQuery ==
  /\ query.pc = "done" /\ inMemory.pc = "idle"
  /\ inMemory' =
       [inMemory EXCEPT
          !.pc = "done",
          !.result =
             IF query.op = "getEventsByType"
             THEN inMemoryGetEventsByType(inMemory.events, query.eventType, query.fromVersion)
             ELSE inMemoryGetAllEvents(inMemory.events, query.fromVersion, query.toVersion)]
  /\ UNCHANGED <<eventStore, snapshots, circuitBreaker, now, call, faults>>
  /\ UNCHANGED <<retryRun, execution, breakerLog, query>>

(* no call is in flight and every finished call has been replayed *)
Replayed == \A p \in Procs : call[p].pc = "idle" \/ p \in inMemory.applied

NextRefinement ==
  \/ /\ query.pc = "idle" /\ Replayed
     /\ \E p \in Procs, a \in AggregateIds, n \in 1..MaxEvents, e \in ExpectedVersions :
          appendEvents(p, a, n, e)
  \/ \E p \in Procs : checkVersion(p)
  \/ \E p \in Procs : assignVersions(p)
  \/ \E p \in Procs : save(p)
  \/ \E p \in Procs : commitTransaction(p)
  \/ \E p \in Procs : settle(p)
  \/ \E p \in Procs : replay(p)
  \/ \E from \in QueryVersions, to \in QueryVersions : Replayed /\ getAllEvents(from, to)
  \/ \E type \in EventTypes, from \in QueryVersions : Replayed /\ getEventsByType(type, from)
  \/ inMemoryQuery

SpecRefinement == Init /\ [][NextRefinement]_vars

(* the domain events of a result: aggregate, version and type of each (the  *)
(* eventId is a fresh uuid in either store)                                 *)
DomainEvents(result) ==
  [i \in 1 .. Len(result) |->
     <<result[i].aggregateId, result[i].eventVersion, result[i].eventType>>]

(* C30: given the same successful appendEvents calls in the same order,     *)
(* InMemoryEventStore and PostgreSqlEventStore answer getAllEvents and      *)
(* getEventsByType with the same sequence of events                         *)
C30_SameQueryResults ==
  inMemory.pc = "done" => DomainEvents(inMemory.result) = DomainEvents(query.result)

====
